---- MODULE Spec2Model ----
(***************************************************************************)
(* Model of app.py: a Streamlit script that evaluates one of three         *)
(* closed-form surfaces and its gradient at a slider-selected point and    *)
(* renders the surface, a marker and a gradient cone.                      *)
(*                                                                         *)
(* Streamlit reruns the whole script top to bottom on every widget change, *)
(* so every user action below is "change one widget, then run the script". *)
(*                                                                         *)
(* Numbers are exact rationals [n |-> numerator, d |-> denominator]:       *)
(* slider values are tenths, grid coordinates are 490ths.  np.sin, np.cos  *)
(* and the products of the Waves branch are fixed-point values over        *)
(* TrigScale (the analogue of floating-point rounding).                    *)
(***************************************************************************)
EXTENDS Integers, Sequences, FiniteSets

VARIABLES function_option, x_val, y_val,
          z_val, grad_x, grad_y, formula_tex, grad_magnitude,
          magnitude_reads_zero,
          X, Y, Z, marker, cone,
          arg_name, arg_x, arg_y, ret, pc, cell

widgets == <<function_option, x_val, y_val>>
outputs == <<z_val, grad_x, grad_y, formula_tex, grad_magnitude,
             magnitude_reads_zero, X, Y, Z, marker, cone>>
appvars == <<function_option, x_val, y_val,
             z_val, grad_x, grad_y, formula_tex, grad_magnitude,
             magnitude_reads_zero, X, Y, Z, marker, cone>>
callvars == <<arg_name, arg_x, arg_y, ret, pc, cell>>
vars == <<function_option, x_val, y_val,
          z_val, grad_x, grad_y, formula_tex, grad_magnitude,
          magnitude_reads_zero, X, Y, Z, marker, cone,
          arg_name, arg_x, arg_y, ret, pc, cell>>

-----------------------------------------------------------------------------
(* Precision of the fixed-point model of np.sin / np.cos. *)
TrigScale == 10000
TrigTerms == 9

(* Largest number of slider steps one drag or key press moves a slider by. *)
MaxJump == 2

(* Widgets. *)
Peak == "Peak (Paraboloid)"
Saddle == "Saddle (Hyperbolic Paraboloid)"
Waves == "Waves (Sin/Cos)"
FunctionOptions == <<Peak, Saddle, Waves>>

SliderDen == 10
SliderMin == -20
SliderMax == 20
SliderDefault == 5
SliderStep == 1
SliderValues == {v \in SliderMin..SliderMax : (v - SliderMin) % SliderStep = 0}
(* The slider does not clamp to its range. *)
Reachable_unclamped(v) == {w \in (v - MaxJump * SliderStep)..(v + MaxJump * SliderStep) : w # v}

(* Values one move can take a slider at v to. *)
Reachable(v) == {w \in SliderValues : w # v /\ w - v <= MaxJump * SliderStep
                                             /\ v - w <= MaxJump * SliderStep}

(* Grid. *)
Resolution == 50
GridMin == -25
GridMax == 25
GridDen == SliderDen * (Resolution - 1)
Cells == 0..(Resolution - 1)

-----------------------------------------------------------------------------
(* Exact rationals. *)
Rat(n, d) == [n |-> n, d |-> d]
Square(q) == Rat(q.n * q.n, q.d * q.d)
Plus(p, q) == Rat(p.n * (q.d \div p.d) + q.n, q.d)

(* Fixed-point multiply of two values over TrigScale. *)
FixMul(a, b) == (a * b) \div TrigScale

RECURSIVE TaylorSum(_, _, _, _)
TaylorSum(term, x2, k, left) ==
  IF left = 0 THEN 0
  ELSE term + TaylorSum((0 - FixMul(term, x2)) \div (k * (k + 1)), x2, k + 2, left - 1)

(* np.sin(x/d) and np.cos(x/d), over TrigScale. *)
np_sin(x, d) ==
  LET xs == (x * TrigScale) \div d
  IN  TaylorSum(xs, FixMul(xs, xs), 2, TrigTerms)

np_cos(x, d) ==
  LET xs == (x * TrigScale) \div d
  IN  TaylorSum(TrigScale, FixMul(xs, xs), 1, TrigTerms)

-----------------------------------------------------------------------------
FormulaPeak == "f(x, y) = 4 - x^2 - y^2"
FormulaSaddle == "f(x, y) = x^2 - y^2"
FormulaWaves == "f(x, y) = \\sin(x) \\cdot \\cos(y)"

(* Saddle's dz_dx copied from Peak without flipping the sign. *)
calculate_function_copied(name, x, y, d) ==
  IF name = Peak THEN
    [z |-> Rat(4 * d * d - x * x - y * y, d * d),
     dz_dx |-> Rat(-2 * x, d),
     dz_dy |-> Rat(-2 * y, d),
     formula |-> FormulaPeak]
  ELSE IF name = Saddle THEN
    [z |-> Rat(x * x - y * y, d * d),
     dz_dx |-> Rat(-2 * x, d),
     dz_dy |-> Rat(-2 * y, d),
     formula |-> FormulaSaddle]
  ELSE
    [z |-> Rat(FixMul(np_sin(x, d), np_cos(y, d)), TrigScale),
     dz_dx |-> Rat(FixMul(np_cos(x, d), np_cos(y, d)), TrigScale),
     dz_dy |-> Rat(FixMul(0 - np_sin(x, d), np_sin(y, d)), TrigScale),
     formula |-> FormulaWaves]

(* Peak's dz_dy without the factor 2. *)
calculate_function_halved(name, x, y, d) ==
  IF name = Peak THEN
    [z |-> Rat(4 * d * d - x * x - y * y, d * d),
     dz_dx |-> Rat(-2 * x, d),
     dz_dy |-> Rat(0 - y, d),
     formula |-> FormulaPeak]
  ELSE IF name = Saddle THEN
    [z |-> Rat(x * x - y * y, d * d),
     dz_dx |-> Rat(2 * x, d),
     dz_dy |-> Rat(-2 * y, d),
     formula |-> FormulaSaddle]
  ELSE
    [z |-> Rat(FixMul(np_sin(x, d), np_cos(y, d)), TrigScale),
     dz_dx |-> Rat(FixMul(np_cos(x, d), np_cos(y, d)), TrigScale),
     dz_dy |-> Rat(FixMul(0 - np_sin(x, d), np_sin(y, d)), TrigScale),
     formula |-> FormulaWaves]

(* The two partial derivatives of Waves exchanged. *)
calculate_function_swapped(name, x, y, d) ==
  IF name = Peak THEN
    [z |-> Rat(4 * d * d - x * x - y * y, d * d),
     dz_dx |-> Rat(-2 * x, d),
     dz_dy |-> Rat(-2 * y, d),
     formula |-> FormulaPeak]
  ELSE IF name = Saddle THEN
    [z |-> Rat(x * x - y * y, d * d),
     dz_dx |-> Rat(2 * x, d),
     dz_dy |-> Rat(-2 * y, d),
     formula |-> FormulaSaddle]
  ELSE
    [z |-> Rat(FixMul(np_sin(x, d), np_cos(y, d)), TrigScale),
     dz_dx |-> Rat(FixMul(0 - np_sin(x, d), np_sin(y, d)), TrigScale),
     dz_dy |-> Rat(FixMul(np_cos(x, d), np_cos(y, d)), TrigScale),
     formula |-> FormulaWaves]

(* calculate_function(name, x/d, y/d) *)
calculate_function(name, x, y, d) ==
  IF name = Peak THEN
    [z |-> Rat(4 * d * d - x * x - y * y, d * d),
     dz_dx |-> Rat(-2 * x, d),
     dz_dy |-> Rat(-2 * y, d),
     formula |-> FormulaPeak]
  ELSE IF name = Saddle THEN
    [z |-> Rat(x * x - y * y, d * d),
     dz_dx |-> Rat(2 * x, d),
     dz_dy |-> Rat(-2 * y, d),
     formula |-> FormulaSaddle]
  ELSE
    [z |-> Rat(FixMul(np_sin(x, d), np_cos(y, d)), TrigScale),
     dz_dx |-> Rat(FixMul(np_cos(x, d), np_cos(y, d)), TrigScale),
     dz_dy |-> Rat(FixMul(0 - np_sin(x, d), np_sin(y, d)), TrigScale),
     formula |-> FormulaWaves]

(* np.sqrt(grad_x**2 + grad_x**2): grad_x typed twice. *)
Magnitude_typo(gx, gy) == [sqrt |-> Plus(Square(gx), Square(gx))]

(* np.sqrt(grad_x**2 + grad_y**2), kept exact as the square root of a rational *)
Magnitude(gx, gy) == [sqrt |-> Plus(Square(gx), Square(gy))]

(* f"{grad_magnitude:.4f}" prints 0.0000: sqrt(n/d) < 0.00005, i.e. 4*10^8 * n < d *)
FormatsAsZero(m) == m.sqrt.n <= (m.sqrt.d - 1) \div 400000000

-----------------------------------------------------------------------------
(* endpoint=False: the step is (stop - start) / num, the last value is short of stop. *)
linspace_noend(start, stop, num) ==
  [i \in 0..(num - 1) |-> start * (num - 1) + (i * (stop - start) * (num - 1)) \div num]

(* np.linspace(start/SliderDen, stop/SliderDen, num), over SliderDen*(num-1) *)
linspace(start, stop, num) ==
  [i \in 0..(num - 1) |-> start * (num - 1) + i * (stop - start)]

x_range == linspace(GridMin, GridMax, Resolution)
y_range == linspace(GridMin, GridMax, Resolution)

(* X, Y = np.meshgrid(x_range, y_range) *)
meshgrid_X == [i \in DOMAIN y_range |-> [j \in DOMAIN x_range |-> x_range[j]]]
meshgrid_Y == [i \in DOMAIN y_range |-> [j \in DOMAIN x_range |-> y_range[i]]]

(* Elementwise surfaces of the rendering block. *)
sin_X == [j \in Cells |-> np_sin(x_range[j], GridDen)]
cos_Y == [i \in Cells |-> np_cos(y_range[i], GridDen)]

SurfacePeak ==
  [i \in Cells |-> [j \in Cells |->
     Rat(4 * GridDen * GridDen - meshgrid_X[i][j] * meshgrid_X[i][j]
           - meshgrid_Y[i][j] * meshgrid_Y[i][j], GridDen * GridDen)]]
SurfaceSaddle ==
  [i \in Cells |-> [j \in Cells |->
     Rat(meshgrid_X[i][j] * meshgrid_X[i][j]
           - meshgrid_Y[i][j] * meshgrid_Y[i][j], GridDen * GridDen)]]
SurfaceWaves ==
  [i \in Cells |-> [j \in Cells |-> Rat(FixMul(sin_X[j], cos_Y[i]), TrigScale)]]

(* The second branch compares against a label the selectbox never yields. *)
Surface_label(option) ==
  IF option = Peak THEN SurfacePeak
  ELSE IF option = "Saddle" THEN SurfaceSaddle
  ELSE SurfaceWaves

Surface(option) ==
  IF option = Peak THEN SurfacePeak
  ELSE IF option = Saddle THEN SurfaceSaddle
  ELSE SurfaceWaves

-----------------------------------------------------------------------------
(* The evaluation is taken from the point of the previous run. *)
Script_stale(option, x, y) ==
  LET e == calculate_function(option, x_val, y_val, SliderDen)
      mag == Magnitude(e.dz_dx, e.dz_dy)
  IN  /\ function_option' = option
      /\ x_val' = x
      /\ y_val' = y
      /\ z_val' = e.z
      /\ grad_x' = e.dz_dx
      /\ grad_y' = e.dz_dy
      /\ formula_tex' = e.formula
      /\ grad_magnitude' = mag
      /\ magnitude_reads_zero' = FormatsAsZero(mag)
      /\ X' = meshgrid_X
      /\ Y' = meshgrid_Y
      /\ Z' = Surface(option)
      /\ marker' = [x |-> x, y |-> y, z |-> e.z]
      /\ cone' = [x |-> x, y |-> y, z |-> e.z,
                  u |-> e.dz_dx, v |-> e.dz_dy, w |-> 0]

(* The cone is given a height component. *)
Script_tangent(option, x, y) ==
  LET e == calculate_function(option, x, y, SliderDen)
      mag == Magnitude(e.dz_dx, e.dz_dy)
  IN  /\ function_option' = option
      /\ x_val' = x
      /\ y_val' = y
      /\ z_val' = e.z
      /\ grad_x' = e.dz_dx
      /\ grad_y' = e.dz_dy
      /\ formula_tex' = e.formula
      /\ grad_magnitude' = mag
      /\ magnitude_reads_zero' = FormatsAsZero(mag)
      /\ X' = meshgrid_X
      /\ Y' = meshgrid_Y
      /\ Z' = Surface(option)
      /\ marker' = [x |-> x, y |-> y, z |-> e.z]
      /\ cone' = [x |-> x, y |-> y, z |-> e.z,
                  u |-> e.dz_dx, v |-> e.dz_dy, w |-> mag.sqrt.n]

(* One run of the script with the widgets holding (option, x, y). *)
Script(option, x, y) ==
  LET e == calculate_function(option, x, y, SliderDen)
      mag == Magnitude(e.dz_dx, e.dz_dy)
  IN  /\ function_option' = option
      /\ x_val' = x
      /\ y_val' = y
      /\ z_val' = e.z
      /\ grad_x' = e.dz_dx
      /\ grad_y' = e.dz_dy
      /\ formula_tex' = e.formula
      /\ grad_magnitude' = mag
      /\ magnitude_reads_zero' = FormatsAsZero(mag)
      /\ X' = meshgrid_X
      /\ Y' = meshgrid_Y
      /\ Z' = Surface(option)
      /\ marker' = [x |-> x, y |-> y, z |-> e.z]
      /\ cone' = [x |-> x, y |-> y, z |-> e.z,
                  u |-> e.dz_dx, v |-> e.dz_dy, w |-> 0]

NoCall ==
  /\ arg_name = Peak /\ arg_x = SliderDefault /\ arg_y = SliderDefault
  /\ ret = [status |-> "none"] /\ pc = "idle" /\ cell = <<0, 0>>

(* First run: selectbox on its first option, sliders on their defaults. *)
FirstRun ==
  LET e == calculate_function(FunctionOptions[1], SliderDefault, SliderDefault, SliderDen)
      mag == Magnitude(e.dz_dx, e.dz_dy)
  IN  /\ function_option = FunctionOptions[1]
      /\ x_val = SliderDefault
      /\ y_val = SliderDefault
      /\ z_val = e.z
      /\ grad_x = e.dz_dx
      /\ grad_y = e.dz_dy
      /\ formula_tex = e.formula
      /\ grad_magnitude = mag
      /\ magnitude_reads_zero = FormatsAsZero(mag)
      /\ X = meshgrid_X
      /\ Y = meshgrid_Y
      /\ Z = Surface(FunctionOptions[1])
      /\ marker = [x |-> SliderDefault, y |-> SliderDefault, z |-> e.z]
      /\ cone = [x |-> SliderDefault, y |-> SliderDefault, z |-> e.z,
                 u |-> e.dz_dx, v |-> e.dz_dy, w |-> 0]

Init == FirstRun /\ NoCall

SelectFunction ==
  \E k \in DOMAIN FunctionOptions :
    /\ FunctionOptions[k] # function_option
    /\ Script(FunctionOptions[k], x_val, y_val)
    /\ UNCHANGED callvars

MoveX ==
  \E v \in Reachable(x_val) :
    /\ Script(function_option, v, y_val)
    /\ UNCHANGED callvars

MoveY ==
  \E v \in Reachable(y_val) :
    /\ Script(function_option, x_val, v)
    /\ UNCHANGED callvars

Next == SelectFunction \/ MoveX \/ MoveY

Spec == Init /\ [][Next]_vars

-----------------------------------------------------------------------------
(* calculate_function as a pure function: the arguments are drawn from the *)
(* slider points and from labels the selectbox offers or does not offer.   *)
Recognized == {FunctionOptions[k] : k \in DOMAIN FunctionOptions}
CallNames == Recognized \cup {"Valley", "peak (paraboloid)", ""}

InitCatalog ==
  /\ FirstRun
  /\ arg_name \in CallNames
  /\ arg_x \in SliderValues
  /\ arg_y \in SliderValues
  /\ ret = [status |-> "none"]
  /\ pc = "call"
  /\ cell = <<0, 0>>

(* The call runs to its return statement: no branch raises. *)
Evaluate ==
  /\ pc = "call"
  /\ ret' = [status |-> "returned",
             value |-> calculate_function(arg_name, arg_x, arg_y, SliderDen)]
  /\ pc' = "done"
  /\ UNCHANGED <<arg_name, arg_x, arg_y, cell>>
  /\ UNCHANGED appvars

NextCatalog == Evaluate

SpecCatalog == InitCatalog /\ [][NextCatalog]_vars

-----------------------------------------------------------------------------
(* The rendered surface against calculate_function: with the page rendered *)
(* for any selection, calculate_function is applied to the coordinates of  *)
(* one grid cell under the same selection.                                 *)
ProbeSelect == pc = "idle" /\ SelectFunction

Probe ==
  \E i \in Cells : \E j \in Cells :
    /\ pc = "idle"
    /\ cell' = <<i, j>>
    /\ arg_name' = function_option
    /\ arg_x' = X[i][j]
    /\ arg_y' = Y[i][j]
    /\ ret' = [status |-> "returned",
               value |-> calculate_function(function_option, X[i][j], Y[i][j], GridDen)]
    /\ pc' = "probed"
    /\ UNCHANGED appvars

ProbeReturn ==
  /\ pc = "probed"
  /\ arg_name' = Peak /\ arg_x' = SliderDefault /\ arg_y' = SliderDefault
  /\ ret' = [status |-> "none"] /\ pc' = "idle" /\ cell' = <<0, 0>>
  /\ UNCHANGED appvars

NextSurface == ProbeSelect \/ Probe \/ ProbeReturn

SpecSurface == Init /\ [][NextSurface]_vars

-----------------------------------------------------------------------------
(* C1: a call with a name that is none of the three recognized labels      *)
(* fails with InvalidArgument and returns no evaluation.                   *)
C1_UnrecognizedRejected ==
  (pc = "done" /\ arg_name \notin {Peak, Saddle, Waves})
    => ret.status = "InvalidArgument"

(* C2: at every slider point, Peak returns z = 4 - x^2 - y^2, dz_dx = -2x, *)
(* dz_dy = -2y and Saddle returns z = x^2 - y^2, dz_dx = 2x, dz_dy = -2y   *)
(* (x, y in tenths: z in hundredths, the derivatives in tenths).           *)
C2_ClosedForms ==
  pc = "done" =>
    /\ arg_name = Peak =>
         /\ ret.status = "returned"
         /\ ret.value.z = [n |-> 400 - arg_x * arg_x - arg_y * arg_y, d |-> 100]
         /\ ret.value.dz_dx = [n |-> -2 * arg_x, d |-> 10]
         /\ ret.value.dz_dy = [n |-> -2 * arg_y, d |-> 10]
    /\ arg_name = Saddle =>
         /\ ret.status = "returned"
         /\ ret.value.z = [n |-> arg_x * arg_x - arg_y * arg_y, d |-> 100]
         /\ ret.value.dz_dx = [n |-> 2 * arg_x, d |-> 10]
         /\ ret.value.dz_dy = [n |-> -2 * arg_y, d |-> 10]

C2_Witness ==
  /\ pc = "done" /\ arg_name = Saddle /\ arg_x = -20 /\ arg_y = 13
  /\ ret.value.z.n = 231 /\ ret.value.dz_dx.n = -40

(* C3: for every selection and every grid cell (i, j), Z[i][j] is the z    *)
(* that calculate_function returns for the same selection at              *)
(* (X[i][j], Y[i][j]).                                                     *)
C3_SurfaceMatchesEvaluator ==
  pc = "probed" =>
    /\ arg_name = function_option
    /\ arg_x = X[cell[1]][cell[2]] /\ arg_y = Y[cell[1]][cell[2]]
    /\ Z[cell[1]][cell[2]] = ret.value.z

C3_Witness ==
  /\ pc = "probed" /\ function_option = Saddle /\ cell = <<0, Resolution - 1>>
  /\ Z[0][Resolution - 1] = [n |-> 0, d |-> GridDen * GridDen]
  /\ ret.value.z.n = 0 /\ ret.value.dz_dx.n = 2 * X[0][Resolution - 1]

(* C4: X and Y are the same arrays whatever the selection and after any    *)
(* sequence of function changes and slider moves: 50 evenly spaced values  *)
(* from -2.5 to 2.5 inclusive on each axis, as a full 50x50 outer product; *)
(* no step changes them.                                                   *)
C4_GridShape ==
  /\ DOMAIN X = 0..49 /\ DOMAIN Y = 0..49
  /\ \A i \in 0..49 :
       /\ DOMAIN X[i] = 0..49 /\ DOMAIN Y[i] = 0..49
       /\ \A j \in 0..49 :
            /\ 98 * X[i][j] = GridDen * (-245 + 10 * j)
            /\ 98 * Y[i][j] = GridDen * (-245 + 10 * i)

C4_GridGeometryFixed ==
  /\ []C4_GridShape
  /\ [][X' = X /\ Y' = Y]_vars

C4_Witness ==
  /\ function_option = Waves /\ x_val = -7 /\ y_val = 12
  /\ 2 * X[3][0] = -5 * GridDen /\ 2 * X[3][49] = 5 * GridDen
  /\ 2 * Y[0][3] = -5 * GridDen /\ 2 * Y[49][3] = 5 * GridDen

(* C5: with Peak or Saddle selected, grad_x^2 + grad_y^2 = 0 exactly when  *)
(* (x, y) = (0, 0), the magnitude is 0 exactly there, and the page shows   *)
(* a zero magnitude (the critical-point indication) exactly there.         *)
C5_ZeroIffStationary ==
  function_option \in {Peak, Saddle} =>
    LET stationary == (x_val = 0 /\ y_val = 0)
    IN  /\ (grad_x.n * grad_x.n + grad_y.n * grad_y.n = 0) <=> stationary
        /\ (grad_magnitude.sqrt.n = 0) <=> stationary
        /\ magnitude_reads_zero <=> stationary

C5_Witness ==
  /\ function_option = Saddle /\ x_val = 0 /\ y_val = 0
  /\ magnitude_reads_zero /\ grad_magnitude.sqrt.n = 0

(* C6: with Peak selected, the magnitude is 2*sqrt(x^2 + y^2):             *)
(* grad_x^2 + grad_y^2 = 4*(x^2 + y^2) (x, y in tenths, squares in         *)
(* hundredths).                                                            *)
C6_PeakMagnitude ==
  function_option = Peak =>
    /\ grad_x.d = 10 /\ grad_y.d = 10
    /\ grad_x.n * grad_x.n + grad_y.n * grad_y.n = 4 * (x_val * x_val + y_val * y_val)
    /\ grad_magnitude.sqrt = [n |-> 4 * (x_val * x_val + y_val * y_val), d |-> 100]

C6_Witness ==
  /\ function_option = Peak /\ x_val = 20 /\ y_val = -20
  /\ grad_magnitude.sqrt.n = 3200

(* C7: at (0, 0) Peak gives z = 4, gradient (0, 0), magnitude 0; Saddle    *)
(* gives z = 0, gradient (0, 0), magnitude 0; Waves gives z = 0, gradient  *)
(* (1, 0), magnitude 1.                                                    *)
IsValue(q, k) == q.n = k * q.d
C7_Origin ==
  (x_val = 0 /\ y_val = 0) =>
    /\ function_option = Peak =>
         /\ IsValue(z_val, 4) /\ IsValue(grad_x, 0) /\ IsValue(grad_y, 0)
         /\ IsValue(grad_magnitude.sqrt, 0)
    /\ function_option = Saddle =>
         /\ IsValue(z_val, 0) /\ IsValue(grad_x, 0) /\ IsValue(grad_y, 0)
         /\ IsValue(grad_magnitude.sqrt, 0)
    /\ function_option = Waves =>
         /\ IsValue(z_val, 0) /\ IsValue(grad_x, 1) /\ IsValue(grad_y, 0)
         /\ IsValue(grad_magnitude.sqrt, 1)

C7_Witness ==
  /\ function_option = Waves /\ x_val = 0 /\ y_val = 0
  /\ grad_x.n = TrigScale /\ z_val.n = 0

(* C8: in every state the displayed value, partial derivatives, magnitude, *)
(* formula label, marker position and surface are those computed from the  *)
(* current (function, x, y).                                               *)
C8_Recomputed ==
  LET e == calculate_function(function_option, x_val, y_val, SliderDen)
  IN  /\ z_val = e.z
      /\ grad_x = e.dz_dx
      /\ grad_y = e.dz_dy
      /\ formula_tex = e.formula
      /\ grad_magnitude = Magnitude(e.dz_dx, e.dz_dy)
      /\ marker = [x |-> x_val, y |-> y_val, z |-> e.z]
      /\ Z = Surface(function_option)

C8_Witness ==
  /\ function_option = Saddle /\ x_val = 10 /\ y_val = 10
  /\ z_val.n = 0 /\ grad_x.n = 20 /\ grad_y.n = -20
  /\ grad_magnitude.sqrt = [n |-> 800, d |-> 100]
  /\ formula_tex = FormulaSaddle

(* C9: in every render the cone is anchored at (x_val, y_val, z_val),      *)
(* which is the marker's position, and its direction is                    *)
(* (grad_x, grad_y, 0).                                                    *)
C9_ConeHorizontal ==
  /\ cone.x = x_val /\ cone.y = y_val /\ cone.z = z_val
  /\ marker.x = cone.x /\ marker.y = cone.y /\ marker.z = cone.z
  /\ cone.u = grad_x /\ cone.v = grad_y
  /\ cone.w = 0

C9_Witness ==
  /\ function_option = Peak /\ x_val = 15 /\ y_val = -5
  /\ cone.u.n = -30 /\ cone.v.n = 10 /\ cone.w = 0 /\ cone.z.n = 150

(* C10: the selection is always one of the three labels, each coordinate   *)
(* is a multiple of 0.1 in [-2.0, 2.0], the point lies strictly inside the *)
(* grid domain, and the else branch is only taken with the Waves label.    *)
C10_InputsInRange ==
  /\ function_option \in {Peak, Saddle, Waves}
  /\ x_val \in -20..20 /\ y_val \in -20..20
  /\ X[0][0] * 10 < x_val * GridDen /\ x_val * GridDen < X[0][49] * 10
  /\ Y[0][0] * 10 < y_val * GridDen /\ y_val * GridDen < Y[49][0] * 10
  /\ formula_tex = FormulaWaves => function_option = Waves

C10_Witness ==
  /\ formula_tex = FormulaWaves /\ x_val = 20 /\ y_val = -20

====
